---- MODULE Spec2Model ----
(***************************************************************************)
(* A model of src/index.js: the lessons/orders HTTP service.               *)
(*                                                                         *)
(* State: the process's startup position and its shared db handle, the two *)
(* MongoDB collections (lessons, orders), the server clock, and one record *)
(* per HTTP request with the handler's position.  A handler runs           *)
(* synchronously up to its await (one action), the store then executes the *)
(* operation atomically (one action), and the continuation after the       *)
(* await sends the response (one action).                                  *)
(*                                                                         *)
(* Values are JavaScript/JSON values: a tagged record [t, v].  Strings are *)
(* sequences of one-character strings.  A JS number is [k, n, d]: k is     *)
(* "fin" (the rational n/d in lowest terms, d > 0), "inf", "ninf" or       *)
(* "nan".  Floating point rounding and the sign of zero are not modelled.  *)
(***************************************************************************)
EXTENDS Integers, Sequences, FiniteSets, TLC

(* ------------------------------------------------------------------ *)
(* Bounds of the model                                                 *)
(* ------------------------------------------------------------------ *)
\* requests per run of the full service
MaxReqs == 2
\* requests per run of the inventory mutator
MaxPuts == 2
\* requests per run of the input validation of PUT /lessons/:id
MaxProbes == 1
\* requests per run of the order intake
MaxIntake == 1
\* requests per run of the search
MaxSearch == 1
\* requests per run of the service with a failing store
MaxFaulty == 2
\* concurrent decrements of the concurrency scenario
NConc == 3
\* largest number of spaces an item is seeded with
MaxSpaces == 2
\* ticks of the server clock
MaxClock == 1

(* ------------------------------------------------------------------ *)
(* JavaScript numbers                                                  *)
(* ------------------------------------------------------------------ *)
RECURSIVE Gcd(_, _)
Gcd(a, b) == IF b = 0 THEN a ELSE Gcd(b, a % b)

Abs(i) == IF i < 0 THEN -i ELSE i

\* the finite number n/d (d > 0), in lowest terms
Fin(n, d) ==
    LET g == Gcd(Abs(n), d)
    IN  [k |-> "fin", n |-> n \div g, d |-> d \div g]

Num(i) == Fin(i, 1)
NaN == [k |-> "nan", n |-> 0, d |-> 1]
PosInf == [k |-> "inf", n |-> 0, d |-> 1]
NegInf == [k |-> "ninf", n |-> 0, d |-> 1]

\* Number.isNaN
IsNaN(x) == x.k = "nan"

\* x + y on JS numbers
NumAdd(x, y) ==
    CASE x.k = "nan" \/ y.k = "nan" -> NaN
      [] x.k = "inf" -> IF y.k = "ninf" THEN NaN ELSE PosInf
      [] x.k = "ninf" -> IF y.k = "inf" THEN NaN ELSE NegInf
      [] y.k = "inf" -> PosInf
      [] y.k = "ninf" -> NegInf
      [] OTHER -> Fin(x.n * y.d + y.n * x.d, x.d * y.d)

NumNeg(x) ==
    CASE x.k = "inf" -> NegInf
      [] x.k = "ninf" -> PosInf
      [] x.k = "nan" -> NaN
      [] OTHER -> [x EXCEPT !.n = -x.n]

\* x >= 0 (false for NaN)
NonNegative(x) == x.k = "inf" \/ (x.k = "fin" /\ x.n >= 0)

\* a finite integer
IsInteger(x) == x.k = "fin" /\ x.d = 1

(* ------------------------------------------------------------------ *)
(* JavaScript strings (sequences of characters)                        *)
(* ------------------------------------------------------------------ *)
WhiteSpace == {" ", "\t", "\n", "\r"}
HexDigits == <<"0", "1", "2", "3", "4", "5", "6", "7", "8", "9",
               "a", "b", "c", "d", "e", "f">>
UpperCase == <<"A", "B", "C", "D", "E", "F", "G", "H", "I", "J", "K", "L", "M",
               "N", "O", "P", "Q", "R", "S", "T", "U", "V", "W", "X", "Y", "Z">>
LowerCase == <<"a", "b", "c", "d", "e", "f", "g", "h", "i", "j", "k", "l", "m",
               "n", "o", "p", "q", "r", "s", "t", "u", "v", "w", "x", "y", "z">>

SetMin(S) == CHOOSE x \in S : \A y \in S : x <= y
SetMax(S) == CHOOSE x \in S : \A y \in S : x >= y

LowerChar(c) ==
    IF \E i \in 1..Len(UpperCase) : UpperCase[i] = c
    THEN LowerCase[CHOOSE i \in 1..Len(UpperCase) : UpperCase[i] = c]
    ELSE c

\* String.prototype.trim
Trim(s) ==
    LET keep == {i \in 1..Len(s) : s[i] \notin WhiteSpace}
    IN  IF keep = {} THEN <<>> ELSE SubSeq(s, SetMin(keep), SetMax(keep))

\* whether c is a digit of the radix, and its value
IsDigit(c, radix) ==
    \E i \in 1..radix : HexDigits[i] = LowerChar(c)
DigitVal(c) == (CHOOSE i \in 1..Len(HexDigits) : HexDigits[i] = LowerChar(c)) - 1

AllDigits(s, radix) == \A i \in 1..Len(s) : IsDigit(s[i], radix)

RECURSIVE DigitsVal(_, _)
DigitsVal(s, radix) ==
    IF s = <<>> THEN 0
    ELSE DigitsVal(SubSeq(s, 1, Len(s) - 1), radix) * radix + DigitVal(s[Len(s)])

RECURSIVE Pow10(_)
Pow10(e) == IF e = 0 THEN 1 ELSE 10 * Pow10(e - 1)

\* index of the first character of s that is in S, or 0
FirstIdx(s, S) ==
    LET at == {i \in 1..Len(s) : s[i] \in S}
    IN  IF at = {} THEN 0 ELSE SetMin(at)

Tail1(s, i) == SubSeq(s, i, Len(s))

InfinityLit == <<"I", "n", "f", "i", "n", "i", "t", "y">>

\* 0x.., 0o.., 0b.. : the radix of a non-decimal integer literal, or 0
RadixOf(s) ==
    IF Len(s) >= 3 /\ s[1] = "0"
    THEN CASE s[2] \in {"x", "X"} -> 16
           [] s[2] \in {"o", "O"} -> 8
           [] s[2] \in {"b", "B"} -> 2
           [] OTHER -> 0
    ELSE 0

\* an unsigned decimal literal: digits [. digits] [e [sign] digits], with at
\* least one digit in the mantissa
DecimalParts(s) ==
    LET ePos == FirstIdx(s, {"e", "E"})
        mant == IF ePos = 0 THEN s ELSE SubSeq(s, 1, ePos - 1)
        ex   == IF ePos = 0 THEN <<>> ELSE Tail1(s, ePos + 1)
        exNeg == ex # <<>> /\ ex[1] = "-"
        exDig == IF ex # <<>> /\ ex[1] \in {"+", "-"} THEN Tail1(ex, 2) ELSE ex
        dot  == FirstIdx(mant, {"."})
        ip   == IF dot = 0 THEN mant ELSE SubSeq(mant, 1, dot - 1)
        fp   == IF dot = 0 THEN <<>> ELSE Tail1(mant, dot + 1)
    IN  [ok |-> /\ AllDigits(ip, 10) /\ AllDigits(fp, 10)
                /\ Len(ip) + Len(fp) >= 1
                /\ (ePos # 0 => (exDig # <<>> /\ AllDigits(exDig, 10))),
         ip |-> ip, fp |-> fp, exNeg |-> exNeg, exDig |-> exDig]

DecimalVal(s) ==
    LET p == DecimalParts(s)
        m == DigitsVal(p.ip \o p.fp, 10)
        e == DigitsVal(p.exDig, 10)
    IN  IF p.exNeg
        THEN Fin(m, Pow10(Len(p.fp)) * Pow10(e))
        ELSE Fin(m * Pow10(e), Pow10(Len(p.fp)))

\* Number(s) for a string s (the StringToNumber conversion)
StringToNumber(s) ==
    LET t == Trim(s)
        signed == t # <<>> /\ t[1] \in {"+", "-"}
        body == IF signed THEN Tail1(t, 2) ELSE t
        mag == CASE body = InfinityLit -> PosInf
                 [] body # InfinityLit /\ DecimalParts(body).ok -> DecimalVal(body)
                 [] OTHER -> NaN
    IN  CASE t = <<>> -> Num(0)
          [] t # <<>> /\ RadixOf(t) # 0 ->
                IF AllDigits(Tail1(t, 3), RadixOf(t))
                THEN Num(DigitsVal(Tail1(t, 3), RadixOf(t)))
                ELSE NaN
          [] OTHER -> IF signed /\ t[1] = "-" THEN NumNeg(mag) ELSE mag

(* ------------------------------------------------------------------ *)
(* JSON / JavaScript values: [t |-> tag, v |-> payload]                *)
(* ------------------------------------------------------------------ *)
Undefined == [t |-> "undefined", v |-> 0]
Null == [t |-> "null", v |-> 0]
Bool(b) == [t |-> "boolean", v |-> b]
NumV(x) == [t |-> "number", v |-> x]
StrV(s) == [t |-> "string", v |-> s]
ArrV(a) == [t |-> "array", v |-> a]
ObjV == [t |-> "object", v |-> 0]
DateV(ms) == [t |-> "date", v |-> ms]

\* Number(x)
RECURSIVE ToNumber(_)
ToNumber(x) ==
    CASE x.t = "undefined" -> NaN
      [] x.t = "null" -> Num(0)
      [] x.t = "boolean" -> IF x.v THEN Num(1) ELSE Num(0)
      [] x.t = "number" -> x.v
      [] x.t = "string" -> StringToNumber(x.v)
      [] x.t = "array" ->
            \* Number(String(array)): the elements joined by commas
            IF Len(x.v) = 0 THEN Num(0)
            ELSE IF Len(x.v) > 1 THEN NaN
            ELSE IF x.v[1].t \in {"undefined", "null"} THEN Num(0)
            ELSE IF x.v[1].t \in {"number", "string", "array"} THEN ToNumber(x.v[1])
            ELSE NaN
      [] OTHER -> NaN

\* the truthiness the ! operator tests
Truthy(x) ==
    CASE x.t \in {"undefined", "null"} -> FALSE
      [] x.t = "boolean" -> x.v
      [] x.t = "number" -> ~(x.v.k = "nan" \/ (x.v.k = "fin" /\ x.v.n = 0))
      [] x.t = "string" -> Len(x.v) > 0
      [] OTHER -> TRUE

\* a few evaluations used while developing the conversions
ConversionSamples ==
    /\ StringToNumber(<<"-", "1">>) = Num(-1)
    /\ StringToNumber(<<" ", "2", "0", " ">>) = Num(20)
    /\ StringToNumber(<<"0", ".", "5">>) = Fin(1, 2)
    /\ StringToNumber(<<"1", "e", "2">>) = Num(100)
    /\ StringToNumber(<<"5", "e", "-", "1">>) = Fin(1, 2)
    /\ StringToNumber(<<"0", "x", "1", "0">>) = Num(16)
    /\ StringToNumber(<<"-", "0", "x", "1", "0">>) = NaN
    /\ StringToNumber(<<"I", "n", "f", "i", "n", "i", "t", "y">>) = PosInf
    /\ StringToNumber(<<"-", "I", "n", "f", "i", "n", "i", "t", "y">>) = NegInf
    /\ StringToNumber(<<"a", "b", "c">>) = NaN
    /\ StringToNumber(<<"1", "2", "a">>) = NaN
    /\ StringToNumber(<<".">>) = NaN
    /\ StringToNumber(<<"5", ".">>) = Num(5)
    /\ StringToNumber(<<".", "5">>) = Fin(1, 2)
    /\ StringToNumber(<<"e", "1">>) = NaN
    /\ StringToNumber(<<"1", "e">>) = NaN
    /\ StringToNumber(<<>>) = Num(0)
    /\ StringToNumber(<<" ">>) = Num(0)
    /\ ToNumber(Undefined) = NaN
    /\ ToNumber(Null) = Num(0)
    /\ ToNumber(ArrV(<<>>)) = Num(0)
    /\ ToNumber(ArrV(<<NumV(Num(3))>>)) = Num(3)
    /\ ToNumber(ObjV) = NaN
    /\ NumAdd(Num(1), Fin(1, 2)) = Fin(3, 2)
    /\ NumAdd(PosInf, NegInf) = NaN
    /\ Truthy(ArrV(<<>>)) /\ ~Truthy(StrV(<<>>)) /\ Truthy(StrV(<<" ">>))

(* ------------------------------------------------------------------ *)
(* ObjectId (the bson constructor the PUT handler calls on the path id) *)
(* ------------------------------------------------------------------ *)
\* new ObjectId(id) accepts a string of 24 hex characters or of 12 bytes and
\* throws on any other string
ObjectIdValid(id) == (Len(id) = 24 /\ AllDigits(id, 16)) \/ Len(id) = 12

\* the ObjectId built from a valid string: its hex digits in lower case (the
\* 12 bytes of a 12-character string are kept as they are, marked "raw")
ObjectId(id) ==
    IF Len(id) = 24 THEN [i \in 1..24 |-> LowerChar(id[i])] ELSE <<"raw">> \o id

Rep(c, n) == [i \in 1..n |-> c]

(* ------------------------------------------------------------------ *)
(* State                                                               *)
(* ------------------------------------------------------------------ *)
VARIABLES
    proc,      \* startup: "connecting", "listening" or "exited"
    db,        \* the module-scope handle: "undefined" or "connected"
    lessons,   \* the lessons collection: ObjectId -> document
    orders,    \* the orders collection: the documents in insertion order
    nextOid,   \* the ObjectIds the driver has generated so far
    now,       \* the server clock, read by new Date()
    reqs,      \* the HTTP requests: number (in order of arrival) -> record
    seed,      \* the catalog as it was seeded (never written)
    conn       \* the connection to the store: "down" or "up"

vars == <<proc, db, lessons, orders, nextOid, now, reqs, seed, conn>>

\* a request that has not arrived yet
Idle == [op |-> "none", pc |-> "idle", at |-> 0, in |-> Undefined,
         call |-> Undefined, ret |-> Undefined, status |-> 0, body |-> Undefined]

Reqs == DOMAIN reqs

\* the seeded catalog (created out of band)
IdA == Rep("a", 24)
IdB == Rep("b", 24)
Seed(sa, sb) ==
    (IdA :> [subject |-> <<"M", "a", "t", "h">>, location |-> <<"R", "1">>,
             description |-> <<"S", "u", "m", "s">>,
             price |-> Num(20), spaces |-> Num(sa)])
    @@
    (IdB :> [subject |-> <<"A", "r", "t">>, location |-> <<"R", "2">>,
             description |-> <<"I", "n", "k">>,
             price |-> Num(1), spaces |-> Num(sb)])

\* the state when the module has been loaded and connectDb() has been called:
\* n request slots, item A seeded with one of the values in SA
InitWith(n, SA) ==
    /\ proc = "connecting"
    /\ db = "undefined"
    /\ \E sa \in SA : lessons = Seed(sa, 1)
    /\ orders = <<>>
    /\ nextOid = 0
    /\ now = 0
    /\ reqs = [r \in 1..n |-> Idle]
    /\ seed = lessons
    /\ conn = "down"

(* ------------------------------------------------------------------ *)
(* Startup                                                             *)
(* ------------------------------------------------------------------ *)
\* connectDb(): client.connect() resolves and db is assigned
ConnectDb ==
    /\ proc = "connecting" /\ db = "undefined"
    /\ db' = "connected"
    /\ conn' = "up"
    /\ UNCHANGED <<seed, proc, lessons, orders, nextOid, now, reqs>>

\* the slip of listening without waiting for connectDb()
ListenEarly ==
    /\ proc = "connecting"
    /\ proc' = "listening"
    /\ UNCHANGED <<seed, conn, db, lessons, orders, nextOid, now, reqs>>

\* .then(() => app.listen(...))
Listen ==
    /\ proc = "connecting" /\ db = "connected"
    /\ proc' = "listening"
    /\ UNCHANGED <<seed, conn, db, lessons, orders, nextOid, now, reqs>>

\* client.connect() rejects: .catch(...) process.exit(1)
ConnectFail ==
    /\ proc = "connecting" /\ db = "undefined"
    /\ proc' = "exited"
    /\ UNCHANGED <<seed, conn, db, lessons, orders, nextOid, now, reqs>>

\* time passes
Tick ==
    /\ proc = "listening"
    /\ now < MaxClock
    /\ now' = now + 1
    /\ UNCHANGED <<seed, conn, proc, db, lessons, orders, nextOid, reqs>>

(* ------------------------------------------------------------------ *)
(* The store's availability                                            *)
(* ------------------------------------------------------------------ *)
\* the connection to the store is lost; the handle db stays as it is
ConnLost ==
    /\ proc = "listening" /\ conn = "up"
    /\ conn' = "down"
    /\ UNCHANGED <<seed, proc, db, lessons, orders, nextOid, now, reqs>>

\* the driver reconnects
Reconnect ==
    /\ proc = "listening" /\ conn = "down"
    /\ conn' = "up"
    /\ UNCHANGED <<seed, proc, db, lessons, orders, nextOid, now, reqs>>

\* an awaited store operation fails or times out while the store cannot be
\* reached: the promise rejects and the store has applied nothing of it
StoreFail(r) ==
    /\ conn = "down"
    /\ reqs[r].pc = "await"
    /\ reqs' = [reqs EXCEPT ![r].pc = "reply",
                            ![r].ret = [t |-> "error", v |-> 0]]
    /\ UNCHANGED <<seed, conn, proc, db, lessons, orders, nextOid, now>>

(* ------------------------------------------------------------------ *)
(* Request plumbing                                                    *)
(* ------------------------------------------------------------------ *)
\* request r can arrive: the server listens, and requests are numbered in
\* the order of their arrival
CanArrive(r) ==
    /\ proc = "listening"
    /\ reqs[r].pc = "idle"
    /\ IF r = 1 THEN TRUE ELSE reqs[r - 1].pc # "idle"

\* the time request r arrived at
ArrivedAt(r) == IF reqs[r].pc = "idle" THEN now ELSE reqs[r].at

\* res.status(st).send(b) / res.json(b): the request is finished
Respond(r, op, input, st, b) ==
    reqs' = [reqs EXCEPT ![r] = [op |-> op, pc |-> "done", at |-> ArrivedAt(r),
                                 in |-> input,
                                 call |-> reqs[r].call, ret |-> reqs[r].ret,
                                 status |-> st, body |-> b]]

\* the handler has called a store operation and awaits it
Await(r, op, input, c) ==
    reqs' = [reqs EXCEPT ![r] = [op |-> op, pc |-> "await", at |-> ArrivedAt(r),
                                 in |-> input,
                                 call |-> c, ret |-> Undefined,
                                 status |-> 0, body |-> Undefined]]

\* the store has executed the operation; its result waits for the handler
Resolve(r, result) ==
    reqs' = [reqs EXCEPT ![r].pc = "reply", ![r].ret = result]

Msg(m) == [t |-> "text", v |-> m]

(* ------------------------------------------------------------------ *)
(* PUT /lessons/:id  (adjustSpaces)                                    *)
(* ------------------------------------------------------------------ *)
\* the handler up to its await: guard middleware, Number(spacesDelta), the
\* NaN check, new ObjectId(id) (a throw goes to the error handler: 500)
PutLesson(r, id, body) ==
    /\ CanArrive(r)
    /\ LET input == [id |-> id, body |-> body]
           delta == ToNumber(body.spacesDelta)
       IN  IF db = "undefined"
           THEN Respond(r, "put", input, 503, Msg("Database not connected yet"))
           ELSE IF IsNaN(delta)
           THEN Respond(r, "put", input, 400, Msg("spacesDelta must be a number"))
           ELSE IF ~ObjectIdValid(id)
           THEN Respond(r, "put", input, 500, Msg("Server error"))
           ELSE Await(r, "put", input, [oid |-> ObjectId(id), delta |-> delta])
    /\ UNCHANGED <<seed, conn, proc, db, lessons, orders, nextOid, now>>

\* the slip of an update that writes a second field: { $inc: { spaces, price } }
IncSpacesAndPrice(doc, delta) ==
    [doc EXCEPT !.spaces = NumAdd(doc.spaces, delta),
                !.price = NumAdd(doc.price, delta)]

\* { $inc: { spaces: delta } } applied to a document
IncSpaces(doc, delta) == [doc EXCEPT !.spaces = NumAdd(doc.spaces, delta)]

\* the slip { returnDocument: "before" } (the driver's default)
ReturnDocumentBefore(before, after) == before

\* { returnDocument: "after" }
ReturnDocument(before, after) == after

\* the slip of an update done in the handler, as a find followed by a write
\* of the new value: here the find has seen the item as it was seeded
FindOneAndUpdateStale(r) ==
    /\ conn = "up"
    /\ reqs[r].op = "put" /\ reqs[r].pc = "await"
    /\ LET oid == reqs[r].call.oid
           delta == reqs[r].call.delta
       IN  IF oid \in DOMAIN lessons
           THEN /\ lessons' = [lessons EXCEPT ![oid] = IncSpaces(seed[oid], delta)]
                /\ Resolve(r, [t |-> "doc", v |-> IncSpaces(seed[oid], delta)])
           ELSE /\ lessons' = lessons
                /\ Resolve(r, Null)
    /\ UNCHANGED <<seed, conn, proc, db, orders, nextOid, now>>

\* the store executes findOneAndUpdate({_id}, {$inc}, {returnDocument: "after"})
\* atomically; result.value is null when no document matches
FindOneAndUpdate(r) ==
    /\ conn = "up"
    /\ reqs[r].op = "put" /\ reqs[r].pc = "await"
    /\ LET oid == reqs[r].call.oid
           delta == reqs[r].call.delta
       IN  IF oid \in DOMAIN lessons
           THEN /\ lessons' = [lessons EXCEPT ![oid] = IncSpaces(lessons[oid], delta)]
                /\ Resolve(r, [t |-> "doc",
                               v |-> ReturnDocument(lessons[oid],
                                                    IncSpaces(lessons[oid], delta))])
           ELSE /\ lessons' = lessons
                /\ Resolve(r, Null)
    /\ UNCHANGED <<seed, conn, proc, db, orders, nextOid, now>>

\* the slip of a handler without try/catch: the rejection is unhandled and
\* ends the process
PutReplyUncaught(r) ==
    /\ reqs[r].op = "put" /\ reqs[r].pc = "reply"
    /\ IF reqs[r].ret.t = "error"
       THEN /\ proc' = "exited"
            /\ reqs' = [reqs EXCEPT ![r].pc = "done"]
       ELSE /\ proc' = proc
            /\ IF reqs[r].ret.t = "null"
               THEN Respond(r, "put", reqs[r].in, 404, Msg("Lesson not found"))
               ELSE Respond(r, "put", reqs[r].in, 200, reqs[r].ret)
    /\ UNCHANGED <<seed, conn, db, lessons, orders, nextOid, now>>

\* after the await: a rejected operation goes to the error handler (500);
\* 404 when result.value is null, else the document
PutReply(r) ==
    /\ reqs[r].op = "put" /\ reqs[r].pc = "reply"
    /\ IF reqs[r].ret.t = "error"
       THEN Respond(r, "put", reqs[r].in, 500, Msg("Server error"))
       ELSE IF reqs[r].ret.t = "null"
       THEN Respond(r, "put", reqs[r].in, 404, Msg("Lesson not found"))
       ELSE Respond(r, "put", reqs[r].in, 200, reqs[r].ret)
    /\ UNCHANGED <<seed, conn, proc, db, lessons, orders, nextOid, now>>

(* ------------------------------------------------------------------ *)
(* POST /orders  (createOrder)                                         *)
(* ------------------------------------------------------------------ *)
\* a request body: the fields the handler and the driver look at (a field
\* the JSON does not carry is Undefined)
Payload(items, name, phone, createdAt, id) ==
    [items |-> items, name |-> name, phone |-> phone,
     createdAt |-> createdAt, _id |-> id]

\* !order || !order.items || !order.name || !order.phone
InvalidOrder(order) ==
    ~Truthy(order.items) \/ ~Truthy(order.name) \/ ~Truthy(order.phone)

\* the slip { createdAt: new Date(), ...order }: the payload's own field wins
OrderDocCallerWins(order, date) ==
    IF order.createdAt.t = "undefined"
    THEN [order EXCEPT !.createdAt = date]
    ELSE order

\* { ...order, createdAt: new Date() }
OrderDoc(order, date) == [order EXCEPT !.createdAt = date]

\* insertOne prepares the document: the driver generates an ObjectId when
\* the document carries no _id
PrepareDoc(doc, oidNo) ==
    IF doc._id.t \in {"undefined", "null"}
    THEN [doc EXCEPT !._id = [t |-> "oid", v |-> oidNo]]
    ELSE doc

\* equality of two _id values
SameId(a, b) == a.t = b.t /\ a.v = b.v

\* the handler up to its await
CreateOrder(r, order) ==
    /\ CanArrive(r)
    /\ IF db = "undefined"
       THEN /\ Respond(r, "order", order, 503, Msg("Database not connected yet"))
            /\ UNCHANGED nextOid
       ELSE IF InvalidOrder(order)
       THEN /\ Respond(r, "order", order, 400, Msg("Invalid order payload"))
            /\ UNCHANGED nextOid
       ELSE LET doc == OrderDoc(order, DateV(now))
            IN  /\ Await(r, "order", order, PrepareDoc(doc, nextOid + 1))
                /\ nextOid' = IF doc._id.t \in {"undefined", "null"}
                              THEN nextOid + 1 ELSE nextOid
    /\ UNCHANGED <<seed, conn, proc, db, lessons, orders, now>>

\* the slip of an intake that also takes a space of an item
InsertOneReserving(r) ==
    /\ conn = "up"
    /\ reqs[r].op = "order" /\ reqs[r].pc = "await"
    /\ LET doc == reqs[r].call
       IN  IF \E i \in 1..Len(orders) : SameId(orders[i]._id, doc._id)
           THEN /\ orders' = orders
                /\ lessons' = lessons
                /\ Resolve(r, [t |-> "error", v |-> 11000])
           ELSE /\ orders' = Append(orders, doc)
                /\ lessons' = [lessons EXCEPT ![IdA] = IncSpaces(@, Num(-1))]
                /\ Resolve(r, [t |-> "inserted", v |-> doc._id])
    /\ UNCHANGED <<seed, conn, proc, db, nextOid, now>>

\* the slip of a write that replaces the stored order of the same _id
\* (replaceOne with upsert) instead of inserting
InsertOneReplacing(r) ==
    /\ conn = "up"
    /\ reqs[r].op = "order" /\ reqs[r].pc = "await"
    /\ LET doc == reqs[r].call
           dup == {i \in 1..Len(orders) : SameId(orders[i]._id, doc._id)}
       IN  /\ orders' = IF dup = {}
                        THEN Append(orders, doc)
                        ELSE [i \in 1..Len(orders) |->
                                 IF i \in dup THEN doc ELSE orders[i]]
           /\ Resolve(r, [t |-> "inserted", v |-> doc._id])
    /\ UNCHANGED <<seed, conn, proc, db, lessons, nextOid, now>>

\* the store executes insertOne atomically: a duplicate _id is an error
InsertOne(r) ==
    /\ conn = "up"
    /\ reqs[r].op = "order" /\ reqs[r].pc = "await"
    /\ LET doc == reqs[r].call
       IN  IF \E i \in 1..Len(orders) : SameId(orders[i]._id, doc._id)
           THEN /\ orders' = orders
                /\ Resolve(r, [t |-> "error", v |-> 11000])
           ELSE /\ orders' = Append(orders, doc)
                /\ Resolve(r, [t |-> "inserted", v |-> doc._id])
    /\ UNCHANGED <<seed, conn, proc, db, lessons, nextOid, now>>

\* after the await: { ok: true, orderId: inserted.insertedId }, or the
\* error handler's 500
OrderReply(r) ==
    /\ reqs[r].op = "order" /\ reqs[r].pc = "reply"
    /\ IF reqs[r].ret.t = "error"
       THEN Respond(r, "order", reqs[r].in, 500, Msg("Server error"))
       ELSE Respond(r, "order", reqs[r].in, 200,
                    [t |-> "ok", v |-> reqs[r].ret.v])
    /\ UNCHANGED <<seed, conn, proc, db, lessons, orders, nextOid, now>>

(* ------------------------------------------------------------------ *)
(* GET /lessons                                                        *)
(* ------------------------------------------------------------------ *)
ListLessons(r) ==
    /\ CanArrive(r)
    /\ IF db = "undefined"
       THEN Respond(r, "list", Undefined, 503, Msg("Database not connected yet"))
       ELSE Await(r, "list", Undefined, [t |-> "find", v |-> 0])
    /\ UNCHANGED <<seed, conn, proc, db, lessons, orders, nextOid, now>>

\* the store executes find({}).toArray()
FindAll(r) ==
    /\ conn = "up"
    /\ reqs[r].op = "list" /\ reqs[r].pc = "await"
    /\ Resolve(r, [t |-> "docs", v |-> lessons])
    /\ UNCHANGED <<seed, conn, proc, db, lessons, orders, nextOid, now>>

ListReply(r) ==
    /\ reqs[r].op = "list" /\ reqs[r].pc = "reply"
    /\ IF reqs[r].ret.t = "error"
       THEN Respond(r, "list", Undefined, 500, Msg("Server error"))
       ELSE Respond(r, "list", Undefined, 200, reqs[r].ret)
    /\ UNCHANGED <<seed, conn, proc, db, lessons, orders, nextOid, now>>

(* ------------------------------------------------------------------ *)
(* GET /search                                                         *)
(* ------------------------------------------------------------------ *)
\* The $regex patterns modelled: a sequence of atoms, each a literal
\* character or "." (any character), each optionally followed by one of the
\* quantifiers "*", "+", "?"; and the patterns the store refuses to compile
\* because a quantifier has nothing to repeat or a "(", ")" or "[" has no
\* partner.  Groups, classes, alternation, anchors and escapes are outside
\* the tokens the runs draw.
Quantifiers == {"*", "+", "?"}

RegexInvalid(p) ==
    \/ (Len(p) > 0 /\ p[1] \in Quantifiers)
    \/ (\E i \in 1..Len(p) : p[i] = "(") /\ ~(\E i \in 1..Len(p) : p[i] = ")")
    \/ (\E i \in 1..Len(p) : p[i] = ")") /\ ~(\E i \in 1..Len(p) : p[i] = "(")
    \/ (\E i \in 1..Len(p) : p[i] = "[") /\ ~(\E i \in 1..Len(p) : p[i] = "]")

\* an atom of the pattern matches a character, letters compared without case
\* ($options: "i")
AtomMatches(a, c) == (a = "." /\ c # "\n") \/ LowerChar(a) = LowerChar(c)

\* the pattern p from its i-th character on matches s from its j-th
\* character on (a prefix of it)
RECURSIVE MatchHere(_, _, _, _)
MatchHere(p, i, s, j) ==
    IF i > Len(p) THEN TRUE
    ELSE LET q == IF i + 1 <= Len(p) /\ p[i + 1] \in Quantifiers
                  THEN p[i + 1] ELSE ""
             \* the n characters of s from j on all match the atom
             Run(n) == \A m \in 0..(n - 1) : AtomMatches(p[i], s[j + m])
             rest == Len(s) - j + 1
         IN  CASE q = "" ->
                    j <= Len(s) /\ AtomMatches(p[i], s[j]) /\ MatchHere(p, i + 1, s, j + 1)
               [] q = "?" ->
                    \E n \in 0..(IF rest >= 1 THEN 1 ELSE 0) :
                        Run(n) /\ MatchHere(p, i + 2, s, j + n)
               [] q = "*" ->
                    \E n \in 0..rest : Run(n) /\ MatchHere(p, i + 2, s, j + n)
               [] q = "+" ->
                    \E n \in 1..rest : Run(n) /\ MatchHere(p, i + 2, s, j + n)

\* { field: { $regex: p, $options: "i" } }: p matches somewhere in s
RegexSearch(p, s) == \E j \in 1..(Len(s) + 1) : MatchHere(p, 1, s, j)

\* (req.query.q || "").trim()
QueryToken(qv) == Trim(IF Truthy(qv) THEN qv.v ELSE <<>>)

\* the slip !Number(q): a token whose value is zero counts as missing
EmptyQueryFalsyZero(q) == q = <<>> \/ StringToNumber(q) = Num(0)

\* !q
EmptyQuery(q) == q = <<>>

\* const isNumeric = !Number.isNaN(Number(q))
IsNumeric(q) == ~IsNaN(StringToNumber(q))

\* the filter the handler builds
BuildQuery(q) ==
    IF IsNumeric(q)
    THEN [t |-> "num", v |-> StringToNumber(q)]
    ELSE [t |-> "regex", v |-> q]

\* the slip { price: num } alone
NumericMatchPriceOnly(doc, num) == doc.price = num

\* { $or: [{ price: num }, { spaces: num }] }
NumericMatch(doc, num) == doc.price = num \/ doc.spaces = num

\* { $or: [{ subject: regex }, { location: regex }, { description: regex }] }
TextMatch(doc, p) ==
    \/ RegexSearch(p, doc.subject)
    \/ RegexSearch(p, doc.location)
    \/ RegexSearch(p, doc.description)

\* the documents of a collection that a filter selects
Select(coll, query) ==
    LET hit == {k \in DOMAIN coll :
                   IF query.t = "num"
                   THEN NumericMatch(coll[k], query.v)
                   ELSE TextMatch(coll[k], query.v)}
    IN  [k \in hit |-> coll[k]]

\* the handler up to its await (a q that is not a string, such as a repeated
\* parameter, has no trim method: the TypeError goes to the error handler)
Search(r, qv) ==
    /\ CanArrive(r)
    /\ IF db = "undefined"
       THEN Respond(r, "search", qv, 503, Msg("Database not connected yet"))
       ELSE IF Truthy(qv) /\ qv.t # "string"
       THEN Respond(r, "search", qv, 500, Msg("Server error"))
       ELSE IF EmptyQuery(QueryToken(qv))
       THEN Respond(r, "search", qv, 400, Msg("Missing search query 'q'"))
       ELSE Await(r, "search", qv, BuildQuery(QueryToken(qv)))
    /\ UNCHANGED <<seed, conn, proc, db, lessons, orders, nextOid, now>>

\* the store executes find(query).toArray(); a pattern it cannot compile is
\* an error
Find(r) ==
    /\ conn = "up"
    /\ reqs[r].op = "search" /\ reqs[r].pc = "await"
    /\ IF reqs[r].call.t = "regex" /\ RegexInvalid(reqs[r].call.v)
       THEN Resolve(r, [t |-> "error", v |-> 51091])
       ELSE Resolve(r, [t |-> "docs", v |-> Select(lessons, reqs[r].call)])
    /\ UNCHANGED <<seed, conn, proc, db, lessons, orders, nextOid, now>>

SearchReply(r) ==
    /\ reqs[r].op = "search" /\ reqs[r].pc = "reply"
    /\ IF reqs[r].ret.t = "error"
       THEN Respond(r, "search", reqs[r].in, 500, Msg("Server error"))
       ELSE Respond(r, "search", reqs[r].in, 200, reqs[r].ret)
    /\ UNCHANGED <<seed, conn, proc, db, lessons, orders, nextOid, now>>

\* a few evaluations of the pattern matcher
RegexSamples ==
    /\ RegexSearch(<<"a", "t">>, <<"M", "a", "t", "h">>)
    /\ RegexSearch(<<"m", "A">>, <<"M", "a", "t", "h">>)
    /\ ~RegexSearch(<<"m", "t">>, <<"M", "a", "t", "h">>)
    /\ RegexSearch(<<"m", ".", "t">>, <<"M", "a", "t", "h">>)
    /\ RegexSearch(<<"m", "x", "*", "a">>, <<"M", "a", "t", "h">>)
    /\ ~RegexSearch(<<"m", "x", "+", "a">>, <<"M", "a", "t", "h">>)
    /\ RegexSearch(<<"m", "a", "+", "t">>, <<"M", "a", "t", "h">>)
    /\ RegexSearch(<<"r", "x", "?", "1">>, <<"R", "1">>)
    /\ RegexSearch(<<".", "*">>, <<>>)
    /\ ~RegexSearch(<<".">>, <<>>)
    /\ RegexInvalid(<<"(">>) /\ RegexInvalid(<<"*", "a">>) /\ RegexInvalid(<<"[", "a">>)
    /\ ~RegexInvalid(<<"a", ".", "b">>)
    /\ QueryToken(Undefined) = <<>>
    /\ QueryToken(StrV(<<" ", "0", " ">>)) = <<"0">>
    /\ ~EmptyQuery(<<"0">>) /\ EmptyQueryFalsyZero(<<"0">>)
    /\ IsNumeric(<<"0", "x", "1", "4">>) /\ IsNumeric(InfinityLit)
    /\ ~IsNumeric(<<"m", "a", "t", "h">>)

(* ------------------------------------------------------------------ *)
(* Inputs                                                              *)
(* ------------------------------------------------------------------ *)
IdC == Rep("c", 24)                  \* well formed, no such item
IdShort == <<"x", "y", "z">>         \* not an ObjectId string

DeltaBody(v) == [spacesDelta |-> v]

\* path ids and bodies of the inventory mutator's runs
AdjIds == {IdA, IdB}
AdjBodies == {DeltaBody(NumV(Num(d))) : d \in {-2, -1, 1}}

\* path ids and bodies of the input validation's runs
PutIds == {IdA, IdC, IdShort}
PutBodies ==
    {DeltaBody(v) : v \in
        {NumV(Num(-1)), NumV(Num(1)), NumV(Fin(1, 2)), NumV(PosInf),
         StrV(<<"-", "1">>), StrV(<<"a", "b", "c">>), StrV(<<>>),
         Bool(TRUE), Null, Undefined}}

\* an item reference with a quantity
ItemRef(q) == [t |-> "ref", v |-> q]
Name == StrV(<<"A", "l">>)
Phone == StrV(<<"0", "7">>)
Blank == StrV(<<>>)
CallerDate == StrV(<<"1", "9", "9", "9">>)
CallerId == StrV(<<"o", "1">>)

\* payloads of the order intake's runs
OrderPayloads ==
    {Payload(i, n, p, c, id) :
        i \in {Undefined, ArrV(<<>>), ArrV(<<ItemRef(5)>>)},
        n \in {Undefined, Blank, Name},
        p \in {Blank, Phone},
        c \in {Undefined, CallerDate},
        id \in {Undefined, CallerId}}

\* the q parameters of the search's runs
SearchTokens ==
    {Undefined, StrV(<<>>), StrV(<<" ", " ">>),
     StrV(<<"0">>), StrV(<<" ", "0", " ">>), StrV(<<"1">>), StrV(<<"2", "0">>),
     StrV(<<"2", ".", "0">>),
     StrV(<<"m", "a", "t", "h">>), StrV(<<"R">>), StrV(<<"z">>),
     StrV(<<"M", ".", "t", "h">>), StrV(<<"(">>),
     StrV(<<"0", "x", "1", "4">>), StrV(InfinityLit)}

\* inputs of the full service's runs
SvcPutIds == {IdA, IdC}
SvcPutBodies == {DeltaBody(NumV(Num(-1))), DeltaBody(NumV(Num(1)))}
SvcTokens == {StrV(<<"m", "a", "t", "h">>), StrV(<<"1">>)}
SvcPayloads ==
    {Payload(ArrV(<<ItemRef(5)>>), Name, Phone, Undefined, Undefined),
     Payload(ArrV(<<ItemRef(1)>>), Name, Phone, CallerDate, CallerId),
     Payload(ArrV(<<ItemRef(2)>>), Name, Phone, Undefined, CallerId),
     Payload(ArrV(<<>>), Blank, Phone, Undefined, Undefined)}

(* ------------------------------------------------------------------ *)
(* Specifications                                                      *)
(* ------------------------------------------------------------------ *)
Startup == ConnectDb \/ Listen \/ ConnectFail

\* the full service (the clock stands still: it matters to the order
\* intake only, see SpecOrders)
Init == InitWith(MaxReqs, 0..MaxSpaces)
Next ==
    \/ Startup
    \/ \E r \in Reqs, id \in SvcPutIds, b \in SvcPutBodies : PutLesson(r, id, b)
    \/ \E r \in Reqs : FindOneAndUpdate(r)
    \/ \E r \in Reqs : PutReply(r)
    \/ \E r \in Reqs, o \in SvcPayloads : CreateOrder(r, o)
    \/ \E r \in Reqs : InsertOne(r)
    \/ \E r \in Reqs : OrderReply(r)
    \/ \E r \in Reqs : ListLessons(r)
    \/ \E r \in Reqs : FindAll(r)
    \/ \E r \in Reqs : ListReply(r)
    \/ \E r \in Reqs, q \in SvcTokens : Search(r, q)
    \/ \E r \in Reqs : Find(r)
    \/ \E r \in Reqs : SearchReply(r)
Spec == Init /\ [][Next]_vars

\* the inventory mutator: interleaved integer adjustments of both items
InitAdjust == InitWith(MaxPuts, 0..MaxSpaces)
NextAdjust ==
    \/ Startup
    \/ \E r \in Reqs, id \in AdjIds, b \in AdjBodies : PutLesson(r, id, b)
    \/ \E r \in Reqs : FindOneAndUpdate(r)
    \/ \E r \in Reqs : PutReply(r)
SpecAdjust == InitAdjust /\ [][NextAdjust]_vars

\* the input validation of PUT /lessons/:id, over all kinds of ids and deltas
InitValidate == InitWith(MaxProbes, 0..MaxSpaces)
NextValidate ==
    \/ Startup
    \/ \E r \in Reqs, id \in PutIds, b \in PutBodies : PutLesson(r, id, b)
    \/ \E r \in Reqs : FindOneAndUpdate(r)
    \/ \E r \in Reqs : PutReply(r)
SpecValidate == InitValidate /\ [][NextValidate]_vars

\* NConc concurrent adjustSpaces(IdA, -1) on an item seeded with k < NConc
InitConc == InitWith(NConc, 0..(NConc - 1))
NextConc ==
    \/ Startup
    \/ \E r \in Reqs : PutLesson(r, IdA, DeltaBody(NumV(Num(-1))))
    \/ \E r \in Reqs : FindOneAndUpdate(r)
    \/ \E r \in Reqs : PutReply(r)
SpecConc == InitConc /\ [][NextConc]_vars

\* the search, over all kinds of tokens
InitSearch == InitWith(MaxSearch, 0..MaxSpaces)
NextSearch ==
    \/ Startup
    \/ \E r \in Reqs, q \in SearchTokens : Search(r, q)
    \/ \E r \in Reqs : Find(r)
    \/ \E r \in Reqs : SearchReply(r)
SpecSearch == InitSearch /\ [][NextSearch]_vars

\* the four operations, one valid input each, over a store whose connection
\* drops and comes back and whose operations may fail
FaultPayload == Payload(ArrV(<<ItemRef(5)>>), Name, Phone, Undefined, Undefined)
FaultToken == StrV(<<"m", "a", "t", "h">>)
InitFaults == InitWith(MaxFaulty, {1})
NextFaults ==
    \/ Startup
    \/ ConnLost
    \/ Reconnect
    \/ \E r \in Reqs : StoreFail(r)
    \/ \E r \in Reqs : PutLesson(r, IdA, DeltaBody(NumV(Num(1))))
    \/ \E r \in Reqs : FindOneAndUpdate(r)
    \/ \E r \in Reqs : PutReply(r)
    \/ \E r \in Reqs : CreateOrder(r, FaultPayload)
    \/ \E r \in Reqs : InsertOne(r)
    \/ \E r \in Reqs : OrderReply(r)
    \/ \E r \in Reqs : ListLessons(r)
    \/ \E r \in Reqs : FindAll(r)
    \/ \E r \in Reqs : ListReply(r)
    \/ \E r \in Reqs : Search(r, FaultToken)
    \/ \E r \in Reqs : Find(r)
    \/ \E r \in Reqs : SearchReply(r)
SpecFaults == InitFaults /\ [][NextFaults]_vars

\* the order intake, over all kinds of payloads, with a running clock
InitOrders == InitWith(MaxIntake, 0..MaxSpaces)
NextOrders ==
    \/ Startup
    \/ Tick
    \/ \E r \in Reqs, o \in OrderPayloads : CreateOrder(r, o)
    \/ \E r \in Reqs : InsertOne(r)
    \/ \E r \in Reqs : OrderReply(r)
SpecOrders == InitOrders /\ [][NextOrders]_vars

(* ------------------------------------------------------------------ *)
(* Vocabulary of the properties                                        *)
(* ------------------------------------------------------------------ *)
Done(r) == reqs[r].pc = "done"
IsPut(r) == reqs[r].op = "put"
IsOrder(r) == reqs[r].op = "order"

\* the delta a PUT request asks for
DeltaOf(r) == ToNumber(reqs[r].in.body.spacesDelta)

\* the path id of a PUT request names a seeded item
NamesItem(id) ==
    \E k \in DOMAIN seed :
        Len(id) = Len(k) /\ \A i \in 1..Len(k) : LowerChar(id[i]) = k[i]
ItemNamed(id) ==
    CHOOSE k \in DOMAIN seed :
        Len(id) = Len(k) /\ \A i \in 1..Len(k) : LowerChar(id[i]) = k[i]

\* the steps of a PUT request
PutArrives(r) == reqs[r].pc = "idle" /\ reqs'[r].pc # "idle" /\ reqs'[r].op = "put"
PutUpdates(r) == IsPut(r) /\ reqs[r].pc = "await" /\ reqs'[r].pc = "reply"
PutReplies(r) == IsPut(r) /\ reqs[r].pc = "reply" /\ reqs'[r].pc = "done"

\* C1: in every reachable state every item's spaces is >= 0, whatever
\* adjustSpaces calls were made and however they interleave.
C1_SpacesNeverNegative ==
    \A k \in DOMAIN lessons : NonNegative(lessons[k].spaces)

\* C2: of N concurrent adjustSpaces(id, -1) on an item seeded with k < N
\* spaces, exactly k succeed and N - k fail with a client error, and spaces
\* is never negative.
C2_ExactlyKDecrementsSucceed ==
    LET k == seed[IdA].spaces.n
    IN  /\ NonNegative(lessons[IdA].spaces)
        /\ (\A r \in Reqs : Done(r)) =>
              /\ Cardinality({r \in Reqs : reqs[r].status = 200}) = k
              /\ Cardinality({r \in Reqs : reqs[r].status = 400}) = NConc - k

\* C3: adjustSpaces(id, d) on an existing item with spaces s, d an integer
\* and s + d >= 0: the request is not rejected, the update sets spaces to
\* exactly s + d, and the response is 200 with the document as it is after
\* this update (spaces = s + d).
C3_AdjustWithinCapacity ==
    [][\A r \in Reqs :
        /\ (PutArrives(r) /\ NamesItem(reqs'[r].in.id)
              /\ IsInteger(ToNumber(reqs'[r].in.body.spacesDelta)))
           => reqs'[r].pc = "await"
        /\ (PutUpdates(r) /\ NamesItem(reqs[r].in.id) /\ IsInteger(DeltaOf(r))
              /\ NonNegative(NumAdd(lessons[ItemNamed(reqs[r].in.id)].spaces,
                                    DeltaOf(r))))
           => LET k == ItemNamed(reqs[r].in.id)
                  want == NumAdd(lessons[k].spaces, DeltaOf(r))
              IN  /\ lessons'[k].spaces = want
                  /\ reqs'[r].ret.t = "doc"
                  /\ reqs'[r].ret.v.spaces = want
        /\ (PutReplies(r) /\ reqs[r].ret.t = "doc")
           => /\ reqs'[r].status = 200
              /\ reqs'[r].body.t = "doc"
              /\ reqs'[r].body.v.spaces = reqs[r].ret.v.spaces
      ]_vars

\* a decrement to exactly zero was answered with the zero, while the item
\* has since been restored by another request
C3_Witness ==
    \E r \in Reqs :
        /\ IsPut(r) /\ Done(r) /\ reqs[r].status = 200
        /\ reqs[r].in.id = IdA
        /\ DeltaOf(r) = Num(-1)
        /\ reqs[r].body.v.spaces = Num(0)
        /\ lessons[IdA].spaces = Num(1)

\* C4: adjustSpaces(id, d) on an existing item with spaces s and s + d < 0
\* fails and leaves spaces at s.
C4_BelowFloorIsRejected ==
    [][\A r \in Reqs :
        (PutUpdates(r) /\ NamesItem(reqs[r].in.id)
           /\ ~NonNegative(NumAdd(lessons[ItemNamed(reqs[r].in.id)].spaces,
                                  DeltaOf(r))))
        => /\ lessons'[ItemNamed(reqs[r].in.id)].spaces
                = lessons[ItemNamed(reqs[r].in.id)].spaces
           /\ reqs'[r].ret.t # "doc"
      ]_vars

\* what the contract accepts as a delta: a number, or a numeric string,
\* whose value is a finite integer
FiniteIntegerDelta(v) ==
    /\ v.t \in {"number", "string"}
    /\ (v.t = "string" => Trim(v.v) # <<>>)
    /\ IsInteger(ToNumber(v))

\* C5: adjustSpaces with a valid delta and an id that names no item,
\* whatever the shape of the id string, answers 404, creates no item and
\* leaves the items as they are.
C5_UnknownIdIsNotFound ==
    \A r \in Reqs :
        (IsPut(r) /\ Done(r) /\ FiniteIntegerDelta(reqs[r].in.body.spacesDelta)
           /\ ~NamesItem(reqs[r].in.id))
        => /\ reqs[r].status = 404
           /\ DOMAIN lessons = DOMAIN seed

\* C6: a request (for an existing item) whose spacesDelta is missing,
\* non-numeric, non-finite or fractional is answered 400 and no store
\* update is made for it.
C6_OnlyFiniteIntegersAccepted ==
    \A r \in Reqs :
        (IsPut(r) /\ Done(r) /\ NamesItem(reqs[r].in.id)
           /\ ~FiniteIntegerDelta(reqs[r].in.body.spacesDelta))
        => (reqs[r].status = 400 /\ reqs[r].call.t = "undefined")

(* ------------------------------------------------------------------ *)
(* Order intake                                                        *)
(* ------------------------------------------------------------------ *)
\* what the contract asks of a payload: a non-empty items list, a non-empty
\* name and a non-empty phone
NonEmptyString(v) == v.t = "string" /\ Len(v.v) > 0
ContractValid(order) ==
    /\ order.items.t = "array" /\ Len(order.items.v) > 0
    /\ NonEmptyString(order.name)
    /\ NonEmptyString(order.phone)

\* the steps of an order request
OrderArrives(r) ==
    reqs[r].pc = "idle" /\ reqs'[r].pc # "idle" /\ reqs'[r].op = "order"
OrderInserts(r) == IsOrder(r) /\ reqs[r].pc = "await" /\ reqs'[r].pc = "reply"
OrderReplies(r) == IsOrder(r) /\ reqs[r].pc = "reply" /\ reqs'[r].pc = "done"

\* C7: createOrder with an empty items list, or a missing or empty name or
\* phone, is answered 400 and nothing of it is persisted; every persisted
\* order has non-empty items, name and phone.
C7_InvalidOrderPersistsNothing ==
    /\ \A r \in Reqs :
          (IsOrder(r) /\ Done(r) /\ ~ContractValid(reqs[r].in))
          => reqs[r].status = 400
    /\ \A i \in 1..Len(orders) : ContractValid(orders[i])

\* C8: no step of a createOrder request (arrival, insert, reply) changes
\* any item; a payload with items, name and phone is accepted whatever the
\* items' spaces are, and is answered 200 once inserted.
C8_OrdersLeaveInventoryAlone ==
    [][\A r \in Reqs :
        /\ (OrderArrives(r) \/ OrderInserts(r) \/ OrderReplies(r))
           => lessons' = lessons
        /\ (OrderArrives(r) /\ ContractValid(reqs'[r].in))
           => reqs'[r].pc = "await"
        /\ (OrderReplies(r) /\ reqs[r].ret.t = "inserted")
           => reqs'[r].status = 200
      ]_vars

\* an order for 5 places was accepted and persisted although no item has
\* that many spaces, and the items are as seeded
C8_Witness ==
    \E r \in Reqs :
        /\ IsOrder(r) /\ Done(r) /\ reqs[r].status = 200
        /\ reqs[r].in.items = ArrV(<<ItemRef(5)>>)
        /\ \E i \in 1..Len(orders) : SameId(orders[i]._id, reqs[r].body.v)
        /\ \A k \in DOMAIN lessons :
              lessons[k].spaces.k = "fin" /\ lessons[k].spaces.n < 5
        /\ lessons = seed

\* C9: every persisted order's createdAt is the Date the server read when
\* the request was handled, also when the payload carries a createdAt.
C9_CreatedAtIsServerTime ==
    /\ \A i \in 1..Len(orders) : orders[i].createdAt.t = "date"
    /\ \A r \in Reqs :
          (IsOrder(r) /\ reqs[r].pc \in {"reply", "done"}
             /\ reqs[r].ret.t = "inserted")
          => \E i \in 1..Len(orders) :
                /\ SameId(orders[i]._id, reqs[r].ret.v)
                /\ orders[i].createdAt.t = "date"
                /\ orders[i].createdAt.v = reqs[r].at

\* an order whose payload carried its own createdAt was persisted after the
\* clock had advanced
C9_Witness ==
    \E r \in Reqs :
        /\ IsOrder(r) /\ Done(r) /\ reqs[r].status = 200
        /\ reqs[r].in.createdAt.t = "string"
        /\ reqs[r].at = 1
        /\ Len(orders) = 1 /\ orders[1].createdAt.t = "date"

\* C10: a successful insert adds exactly one record, under an _id no stored
\* order has, and the response carries that _id; a failed insert and every
\* other step of the service (of any request, and startup) leave the stored
\* orders as they are; the stored orders are never modified or removed.
C10_OrdersAppendOnly ==
    [][/\ Len(orders') >= Len(orders)
       /\ SubSeq(orders', 1, Len(orders)) = orders
       /\ (~\E r \in Reqs : OrderInserts(r)) => orders' = orders
       /\ \A r \in Reqs :
            /\ OrderInserts(r) =>
                 IF reqs'[r].ret.t = "inserted"
                 THEN /\ Len(orders') = Len(orders) + 1
                      /\ SameId(orders'[Len(orders')]._id, reqs'[r].ret.v)
                      /\ \A i \in 1..Len(orders) :
                            ~SameId(orders[i]._id, reqs'[r].ret.v)
                 ELSE orders' = orders
            /\ (OrderReplies(r) /\ reqs[r].ret.t = "inserted")
               => /\ reqs'[r].status = 200
                  /\ SameId(reqs'[r].body.v, reqs[r].ret.v)
      ]_vars

\* an order with a caller-chosen _id is stored and answered, and a second
\* order with the same _id was refused
C10_Witness ==
    /\ Len(orders) = 1
    /\ \E r1, r2 \in Reqs :
          /\ IsOrder(r1) /\ Done(r1) /\ reqs[r1].status = 200
          /\ SameId(reqs[r1].body.v, CallerId)
          /\ IsOrder(r2) /\ Done(r2) /\ reqs[r2].status = 500
          /\ reqs[r2].in._id.t = "string"

(* ------------------------------------------------------------------ *)
(* Search                                                              *)
(* ------------------------------------------------------------------ *)
IsSearch(r) == reqs[r].op = "search"

\* the steps of a search request
SearchArrives(r) ==
    reqs[r].pc = "idle" /\ reqs'[r].pc # "idle" /\ reqs'[r].op = "search"
SearchFinds(r) == IsSearch(r) /\ reqs[r].pc = "await" /\ reqs'[r].pc = "reply"
SearchReplies(r) == IsSearch(r) /\ reqs[r].pc = "reply" /\ reqs'[r].pc = "done"

\* the token of a q parameter: its text without the surrounding white space
TokenOf(qv) == IF qv.t = "string" THEN Trim(qv.v) ELSE <<>>

\* a token that is, in full, a decimal number: [sign] digits [. digits]
\* [exponent]; and its value
Unsigned(t) == IF t # <<>> /\ t[1] \in {"+", "-"} THEN Tail1(t, 2) ELSE t
DecimalToken(t) == t # <<>> /\ DecimalParts(Unsigned(t)).ok
TokenValue(t) ==
    IF t[1] = "-" THEN NumNeg(DecimalVal(Unsigned(t))) ELSE DecimalVal(Unsigned(t))

\* t occurs in s, letters compared without case
ContainsCI(s, t) ==
    \E j \in 1..(Len(s) - Len(t) + 1) :
        \A i \in 1..Len(t) : LowerChar(s[j + i - 1]) = LowerChar(t[i])

\* the linear scans of the catalog
ScanNumeric(val) ==
    {k \in DOMAIN lessons : lessons[k].price = val \/ lessons[k].spaces = val}
ScanText(t) ==
    {k \in DOMAIN lessons :
        \/ ContainsCI(lessons[k].subject, t)
        \/ ContainsCI(lessons[k].location, t)
        \/ ContainsCI(lessons[k].description, t)}

\* the store's answer to request r is exactly the documents of the set K
Returns(r, K) ==
    /\ reqs'[r].ret.t = "docs"
    /\ DOMAIN reqs'[r].ret.v = K
    /\ \A k \in K : reqs'[r].ret.v[k] = lessons[k]

\* C11: for a non-empty numeric (decimal) token t the search is accepted,
\* the result is exactly the items with price = t or spaces = t, and that
\* result is the 200 response.
C11_NumericSearchIsExact ==
    [][\A r \in Reqs :
        /\ (SearchArrives(r) /\ DecimalToken(TokenOf(reqs'[r].in)))
           => reqs'[r].pc = "await"
        /\ (SearchFinds(r) /\ DecimalToken(TokenOf(reqs[r].in)))
           => Returns(r, ScanNumeric(TokenValue(TokenOf(reqs[r].in))))
        /\ (SearchReplies(r) /\ reqs[r].ret.t = "docs")
           => /\ reqs'[r].status = 200
              /\ reqs'[r].body.t = "docs"
              /\ reqs'[r].body.v = reqs[r].ret.v
      ]_vars

\* the token "0" found the item that has no spaces left (its price is 20)
C11_Witness ==
    \E r \in Reqs :
        /\ IsSearch(r) /\ Done(r) /\ reqs[r].status = 200
        /\ TokenOf(reqs[r].in) = <<"0">>
        /\ DOMAIN reqs[r].body.v = {IdA}
        /\ lessons[IdA].spaces = Num(0)

\* C12: for a non-empty non-numeric token t, whatever characters it is made
\* of, the result is exactly the items in which t occurs literally, without
\* regard to case, in subject, location or description.
C12_TextSearchIsLiteralSubstring ==
    [][\A r \in Reqs :
        (SearchFinds(r) /\ TokenOf(reqs[r].in) # <<>>
           /\ ~DecimalToken(TokenOf(reqs[r].in))
           /\ ~IsNumeric(TokenOf(reqs[r].in)))
        => Returns(r, ScanText(TokenOf(reqs[r].in)))
      ]_vars

\* C13: a token takes the numeric path if and only if it is, in full, a
\* decimal number.
C13_NumericPathIffDecimal ==
    \A r \in Reqs :
        (IsSearch(r) /\ reqs[r].call.t # "undefined")
        => ((reqs[r].call.t = "num") <=> DecimalToken(TokenOf(reqs[r].in)))

\* a q that is missing, empty or white space only
BlankQuery(qv) == qv.t = "undefined" \/ (qv.t = "string" /\ Trim(qv.v) = <<>>)

\* C14: a search whose q is missing, empty or white space is answered 400
\* at once, with no store operation; the token "0", also with white space
\* around it, is accepted as the number 0 and returns the items with price
\* 0 or spaces 0.
C14_BlankRejectedZeroAccepted ==
    [][\A r \in Reqs :
        /\ (SearchArrives(r) /\ BlankQuery(reqs'[r].in))
           => /\ reqs'[r].pc = "done" /\ reqs'[r].status = 400
              /\ reqs'[r].call.t = "undefined"
        /\ (SearchArrives(r) /\ TokenOf(reqs'[r].in) = <<"0">>)
           => /\ reqs'[r].pc = "await"
              /\ reqs'[r].call.t = "num" /\ reqs'[r].call.v = Num(0)
        /\ (SearchFinds(r) /\ TokenOf(reqs[r].in) = <<"0">>)
           => Returns(r, ScanNumeric(Num(0)))
        /\ (SearchReplies(r) /\ reqs[r].ret.t = "docs")
           => reqs'[r].status = 200 /\ reqs'[r].body.v = reqs[r].ret.v
      ]_vars

\* " 0 " was answered with the item that has no spaces left
C14_Witness ==
    \E r \in Reqs :
        /\ IsSearch(r) /\ Done(r) /\ reqs[r].status = 200
        /\ reqs[r].in.t = "string" /\ reqs[r].in.v = <<" ", "0", " ">>
        /\ IdA \in DOMAIN reqs[r].body.v

\* a search without a token was answered 400 and never reached the store
C14_BlankWitness ==
    \E r \in Reqs :
        /\ IsSearch(r) /\ Done(r) /\ reqs[r].status = 400
        /\ reqs[r].in.t = "string" /\ reqs[r].in.v = <<" ", " ">>
        /\ reqs[r].call.t = "undefined"

(* ------------------------------------------------------------------ *)
(* Store availability and failures                                     *)
(* ------------------------------------------------------------------ *)
\* the steps of any request
Arrives(r) == reqs[r].pc = "idle" /\ reqs'[r].pc # "idle"
OpFails(r) ==
    reqs[r].pc = "await" /\ reqs'[r].pc = "reply" /\ reqs'[r].ret.t = "error"
Replies(r) == reqs[r].pc = "reply" /\ reqs'[r].pc = "done"

\* C15: a request that arrives while the store connection is not established
\* (not yet, or no longer) is answered 503 in its first step, before any
\* validation or store operation, and leaves the store unchanged.
C15_UnavailableStoreIs503 ==
    [][\A r \in Reqs :
        (Arrives(r) /\ conn = "down")
        => /\ reqs'[r].pc = "done" /\ reqs'[r].status = 503
           /\ reqs'[r].call.t = "undefined"
           /\ lessons' = lessons /\ orders' = orders
      ]_vars

\* C17: a store operation that fails inside request r changes nothing in the
\* store, r is answered 500 "Server error", the records of the other requests
\* are untouched by both steps, a request whose own operation succeeded is
\* answered 200, and the process keeps listening.
C17_FailureScopedToRequest ==
    [][/\ \A r \in Reqs :
            /\ OpFails(r)
               => /\ lessons' = lessons /\ orders' = orders
                  /\ \A o \in Reqs \ {r} : reqs'[o] = reqs[o]
            /\ (Replies(r) /\ reqs[r].ret.t = "error")
               => /\ reqs'[r].status = 500
                  /\ reqs'[r].body = Msg("Server error")
                  /\ lessons' = lessons /\ orders' = orders
                  /\ \A o \in Reqs \ {r} : reqs'[o] = reqs[o]
            /\ (Replies(r) /\ reqs[r].ret.t # "error")
               => reqs'[r].status = 200
       /\ proc = "listening" => proc' = "listening"
      ]_vars

\* the first request's update failed and was answered 500; the second
\* request, a later update of the same item, succeeded on the unchanged item
C17_Witness ==
    /\ reqs[1].op = "put" /\ reqs[1].pc = "done" /\ reqs[1].status = 500
    /\ reqs[2].op = "put" /\ reqs[2].pc = "done" /\ reqs[2].status = 200
    /\ reqs[2].body.t = "doc" /\ reqs[2].body.v.spaces = Num(2)
    /\ lessons[IdA].spaces = Num(2)
    /\ proc = "listening"

(* ------------------------------------------------------------------ *)
(* Frame of the item records                                           *)
(* ------------------------------------------------------------------ *)
IsList(r) == reqs[r].op = "list"

\* request r takes a step
Steps(r) == reqs'[r] # reqs[r]

\* C16: no step creates or deletes an item; the item records change only in
\* the update step of an adjustSpaces request, which changes at most the
\* spaces field of the one item it targets; no step of a list or search
\* request changes the store.
C16_ItemsChangeOnlyByAdjust ==
    [][/\ DOMAIN lessons' = DOMAIN lessons
       /\ lessons' # lessons
          => \E r \in Reqs :
                /\ PutUpdates(r)
                /\ \A k \in DOMAIN lessons :
                      IF k = reqs[r].call.oid
                      THEN lessons'[k] = [lessons[k] EXCEPT !.spaces = lessons'[k].spaces]
                      ELSE lessons'[k] = lessons[k]
       /\ \A r \in Reqs :
             (Steps(r) /\ (reqs'[r].op \in {"list", "search"}))
             => lessons' = lessons /\ orders' = orders
      ]_vars

\* an adjustSpaces call changed the spaces of item A, and a search that ran
\* next to it was answered
C16_Witness ==
    \E r, o \in Reqs :
        /\ IsPut(r) /\ Done(r) /\ reqs[r].status = 200
        /\ reqs[r].body.t = "doc"
        /\ lessons[IdA].spaces # seed[IdA].spaces
        /\ lessons[IdA].price = seed[IdA].price
        /\ IsSearch(o) /\ Done(o) /\ reqs[o].status = 200

(* ------------------------------------------------------------------ *)
(* Outcomes, lost updates, startup                                     *)
(* ------------------------------------------------------------------ *)
\* C18: every finished adjustSpaces call has exactly one outcome among the
\* updated item (200), NotFound (404), InvalidDelta (400) and Conflict
\* (409), reached after a bounded number of store update attempts.
C18_OutcomeIsOneOfFour ==
    \A r \in Reqs :
        (IsPut(r) /\ Done(r))
        => \/ reqs[r].status = 200 /\ reqs[r].body.t = "doc"
           \/ reqs[r].status = 404 /\ reqs[r].ret.t = "null"
           \/ reqs[r].status = 400 /\ reqs[r].call.t = "undefined"
           \/ reqs[r].status = 409

\* request r reported success on item k
Succeeded(r, k) ==
    /\ IsPut(r) /\ Done(r) /\ reqs[r].status = 200
    /\ reqs[r].call.oid = k

\* the sum of the deltas of the requests 1..n that reported success on k
RECURSIVE SuccessSum(_, _)
SuccessSum(k, n) ==
    IF n = 0 THEN Num(0)
    ELSE NumAdd(SuccessSum(k, n - 1),
                IF Succeeded(n, k) THEN reqs[n].call.delta ELSE Num(0))

\* no adjustSpaces call is under way
Quiet == \A r \in Reqs : reqs[r].pc \in {"idle", "done"}

\* C19: whenever no adjustSpaces call is under way, every item's spaces is
\* its initial spaces plus the sum of the deltas of the calls that reported
\* success on it; and the spaces a successful call returns is the value the
\* item reached at that call's own update step.
C19_NoLostUpdate ==
    /\ [](Quiet => \A k \in DOMAIN lessons :
                      lessons[k].spaces
                        = NumAdd(seed[k].spaces, SuccessSum(k, Len(reqs))))
    /\ [][\A r \in Reqs :
            /\ (PutUpdates(r) /\ reqs'[r].ret.t = "doc")
               => /\ reqs'[r].ret.v.spaces = lessons'[reqs[r].call.oid].spaces
                  /\ reqs'[r].ret.v.spaces
                       = NumAdd(lessons[reqs[r].call.oid].spaces, reqs[r].call.delta)
            /\ (PutReplies(r) /\ reqs[r].ret.t = "doc")
               => reqs'[r].status = 200 /\ reqs'[r].body = reqs[r].ret
         ]_vars

\* two overlapping calls on item A both succeeded: the second to arrive was
\* the first to update, so the first returned the final value and the
\* second did not
C19_Witness ==
    /\ Len(reqs) >= 2
    /\ Succeeded(1, IdA) /\ Succeeded(2, IdA)
    /\ reqs[1].body.v.spaces = lessons[IdA].spaces
    /\ reqs[2].body.v.spaces # lessons[IdA].spaces
    /\ lessons[IdA].spaces # seed[IdA].spaces

C20_ExitWitness ==
    /\ proc = "exited" /\ db = "undefined"
    /\ \A r \in Reqs : reqs[r].pc = "idle"

====
